---- MODULE Spec2Model ----
(***************************************************************************)
(* Model of fusedwind/turbine/geometry.py: the spline strategies, the FFD  *)
(* perturbation component (FFDSpline), the planform resampler              *)
(* (PGLRedistributedPlanform), the planform reader (read_blade_planform)   *)
(* and the planform group (SplinedBladePlanform).                          *)
(*                                                                         *)
(* Floating point values are modelled as exact rationals <<n, d>> in       *)
(* lowest terms with d >= 0; d = 0 encodes the IEEE non-finite values      *)
(* (<<1,0>> = +inf, <<-1,0>> = -inf, <<0,0>> = nan) that numpy produces on  *)
(* a division by zero.                                                     *)
(*                                                                         *)
(* Record constructors list their fields in the order in which the field   *)
(* names first occur in the module, which is the order the model checker   *)
(* keeps them in.                                                          *)
(***************************************************************************)
EXTENDS Integers, Sequences, FiniteSets, TLC

VARIABLES
    PGL_installed,  \* module flag _PGL_installed (set by the import at load time)
    ffd,            \* the attributes of one FFDSpline instance
    ffd_unknowns,   \* the outputs FFDSpline declares: name and name_curv
    trace,          \* methods of the strategy invoked by the last operation
    earlier,        \* control vector of the solve_nonlinear call before the last
    rdp,            \* the attributes of one PGLRedistributedPlanform instance
    rdp_unknowns,   \* the outputs it declares, blade<name>:<channel>
    fitted,         \* the interpolants <<channel, method>> its last call built
    planform,       \* the dictionary read_blade_planform returned
    blade,          \* the attributes of one SplinedBladePlanform group
    add_failed,     \* whether a call of add_spline on the group has raised
    op,             \* the last operation and its arguments
    err             \* the exception the last operation ended with, or "none"

vars == <<PGL_installed, ffd, ffd_unknowns, trace, earlier, rdp, rdp_unknowns,
          fitted, planform, blade, add_failed, op, err>>

ffdVars == <<ffd, ffd_unknowns, trace, earlier>>
rdpVars == <<rdp, rdp_unknowns, fitted>>
bladeVars == <<blade, add_failed>>

\* a component that the run does not construct
NoFFD == ffd = <<>> /\ ffd_unknowns = <<>> /\ trace = <<>> /\ earlier = <<>>
NoRDP == rdp = <<>> /\ rdp_unknowns = <<>> /\ fitted = {}
NoPlanform == planform = <<>>
NoBlade == blade = <<>> /\ add_failed = FALSE

----------------------------------------------------------------------------
(* Rational arithmetic with the IEEE non-finite values.                     *)

Abs(i) == IF i < 0 THEN -i ELSE i

Sign(i) == IF i < 0 THEN -1 ELSE IF i > 0 THEN 1 ELSE 0

RECURSIVE GCD(_, _)
GCD(a, b) == IF b = 0 THEN a ELSE GCD(b, a % b)

Q(n, d) ==
    IF d = 0 THEN <<Sign(n), 0>>
    ELSE LET g == GCD(Abs(n), Abs(d))
         IN  <<(Sign(d) * n) \div g, Abs(d) \div g>>

Zero == <<0, 1>>
One == <<1, 1>>
NaN == <<0, 0>>

IsNaN(a) == a = NaN
IsFinite(a) == a[2] # 0

FAdd(a, b) ==
    IF IsFinite(a) /\ IsFinite(b) THEN Q(a[1] * b[2] + b[1] * a[2], a[2] * b[2])
    ELSE IF IsNaN(a) \/ IsNaN(b) THEN NaN
    ELSE IF IsFinite(b) THEN a
    ELSE IF IsFinite(a) THEN b
    ELSE IF a = b THEN a ELSE NaN

FNeg(a) == <<-a[1], a[2]>>
FSub(a, b) == FAdd(a, FNeg(b))
FMul(a, b) == Q(a[1] * b[1], a[2] * b[2])
FDiv(a, b) == Q(a[1] * b[2] * (IF b[1] < 0 THEN -1 ELSE 1), a[2] * Abs(b[1]))
FInt(i) == <<i, 1>>

\* IEEE comparisons: every comparison with nan is false
FEq(a, b) == ~IsNaN(a) /\ ~IsNaN(b) /\ a = b
FLt(a, b) ==
    /\ ~IsNaN(a) /\ ~IsNaN(b)
    /\ IF IsFinite(a) /\ IsFinite(b) THEN a[1] * b[2] < b[1] * a[2]
       ELSE (IF IsFinite(a) THEN 0 ELSE a[1]) < (IF IsFinite(b) THEN 0 ELSE b[1])
FLe(a, b) == FLt(a, b) \/ FEq(a, b)
FSign(a) == Sign(a[1])
FAbs(a) == <<Abs(a[1]), a[2]>>

\* elementwise array operations of numpy
VAdd(u, v) == [i \in 1..Len(u) |-> FAdd(u[i], v[i])]
VMul(u, v) == [i \in 1..Len(u) |-> FMul(u[i], v[i])]
VScale(u, c) == [i \in 1..Len(u) |-> FMul(u[i], c)]
VDivS(u, c) == [i \in 1..Len(u) |-> FDiv(u[i], c)]
VEq(u, v) == Len(u) = Len(v) /\ \A i \in 1..Len(u) : FEq(u[i], v[i])

StrictlyIncreasing(x) == \A i \in 1..(Len(x) - 1) : FLt(x[i], x[i + 1])

----------------------------------------------------------------------------
(* scipy.interpolate.pchip (PchipInterpolator), the monotone piecewise      *)
(* cubic used by pchipSpline and by the resampler's fallback: the           *)
(* Fritsch-Carlson derivative estimates, a cubic Hermite piece per          *)
(* interval, and the end pieces continued outside the knots                 *)
(* (extrapolate=True is the default).                                       *)

\* the result of a call: the exception it raised ("none" when it returned)
\* and the value it returned
Ok(v) == [err |-> "none", val |-> v]
Raise(e) == [err |-> e, val |-> <<>>]

pchip_edge_case(h0, h1, m0, m1) ==
    LET d == FDiv(FSub(FMul(FAdd(FMul(FInt(2), h0), h1), m0), FMul(h0, m1)),
                  FAdd(h0, h1))
    IN  IF FSign(d) # FSign(m0) THEN Zero
        ELSE IF FSign(m0) # FSign(m1) /\ FLt(FMul(FInt(3), FAbs(m0)), FAbs(d))
             THEN FMul(FInt(3), m0)
        ELSE d

pchip_find_derivatives(x, y) ==
    LET n == Len(x)
        h == [k \in 1..(n - 1) |-> FSub(x[k + 1], x[k])]
        m == [k \in 1..(n - 1) |-> FDiv(FSub(y[k + 1], y[k]), h[k])]
        inner(k) ==
            IF FSign(m[k - 1]) # FSign(m[k]) \/ FSign(m[k - 1]) = 0 \/ FSign(m[k]) = 0
            THEN Zero
            ELSE LET w1 == FAdd(FMul(FInt(2), h[k]), h[k - 1])
                     w2 == FAdd(h[k], FMul(FInt(2), h[k - 1]))
                 IN  FDiv(FAdd(w1, w2),
                          FAdd(FDiv(w1, m[k - 1]), FDiv(w2, m[k])))
    IN  IF n = 2 THEN <<m[1], m[1]>>
        ELSE [k \in 1..n |->
                IF k = 1 THEN pchip_edge_case(h[1], h[2], m[1], m[2])
                ELSE IF k = n THEN pchip_edge_case(h[n - 1], h[n - 2], m[n - 1], m[n - 2])
                ELSE inner(k)]

\* index of the polynomial piece used for abscissa t: the interval that holds
\* t, the first piece below the knots and the last piece above them
Piece(x, t) ==
    LET below == {k \in 1..(Len(x) - 1) : FLe(x[k], t)}
    IN  IF below = {} THEN 1 ELSE CHOOSE k \in below : \A j \in below : j <= k

\* the cubic Hermite piece through (x[k], y[k]), (x[k+1], y[k+1]) with end
\* slopes d[k], d[k+1], evaluated at t
HermiteAt(x, y, d, t) ==
    LET k == Piece(x, t)
        h == FSub(x[k + 1], x[k])
        u == FDiv(FSub(t, x[k]), h)
        v == FSub(One, u)
        h00 == FMul(FAdd(One, FMul(FInt(2), u)), FMul(v, v))
        h10 == FMul(u, FMul(v, v))
        h01 == FMul(FMul(u, u), FSub(FInt(3), FMul(FInt(2), u)))
        h11 == FNeg(FMul(FMul(u, u), v))
    IN  FAdd(FAdd(FMul(h00, y[k]), FMul(FMul(h10, h), d[k])),
             FAdd(FMul(h01, y[k + 1]), FMul(FMul(h11, h), d[k + 1])))

\* spl = pchip(xp, yp); spl(x)
pchip(xp, yp, x) ==
    IF Len(xp) # Len(yp) \/ Len(xp) < 2 \/ ~StrictlyIncreasing(xp)
    THEN Raise("ValueError")
    ELSE LET d == pchip_find_derivatives(xp, yp)
         IN  Ok([i \in 1..Len(x) |-> HermiteAt(xp, yp, d, x[i])])

----------------------------------------------------------------------------
(* The Bezier strategy's curve.  PGL's BezierCurve.update() samples the     *)
(* Bezier curve of the control points CPs, and NaturalCubicSpline           *)
(* interpolates the samples; the model evaluates the sampled curve itself,  *)
(* in exact arithmetic.  With equally spaced control abscissas the curve's  *)
(* abscissa is linear in the curve parameter, so the parameter of a target  *)
(* abscissa is rational.                                                    *)

RECURSIVE Binomial(_, _)
Binomial(n, k) == IF k = 0 \/ k = n THEN 1 ELSE Binomial(n - 1, k - 1) + Binomial(n - 1, k)

RECURSIVE FPow(_, _)
FPow(a, k) == IF k = 0 THEN One ELSE FMul(a, FPow(a, k - 1))

RECURSIVE FSum(_, _)
FSum(f, n) == IF n = 0 THEN Zero ELSE FAdd(f[n], FSum(f, n - 1))

\* ordinate of the Bezier curve with control points CPs = <<Cx, C>> at
\* abscissa x
BezierCurveAt(CPs, x) ==
    LET Cx == CPs[1]
        C == CPs[2]
        n == Len(Cx) - 1
        t == FDiv(FSub(x, Cx[1]), FSub(Cx[n + 1], Cx[1]))
        b == [m \in 1..(n + 1) |->
                FMul(FMul(FInt(Binomial(n, m - 1)),
                          FMul(FPow(t, m - 1), FPow(FSub(One, t), n - m + 1))),
                     C[m])]
    IN  FSum(b, n + 1)

----------------------------------------------------------------------------
(* The other interpolation methods the resampling collaborator offers       *)
(* (PGL.main.planform.redistribute_planform: 'linear', 'ncubic', 'pchip',   *)
(* 'akima'), in exact arithmetic.                                           *)

\* piecewise linear interpolant
LinearAt(xp, yp, t) ==
    FAdd(yp[Piece(xp, t)],
         FMul(FDiv(FSub(yp[Piece(xp, t) + 1], yp[Piece(xp, t)]),
                   FSub(xp[Piece(xp, t) + 1], xp[Piece(xp, t)])),
              FSub(t, xp[Piece(xp, t)])))

\* Akima's slopes: m[j] is the slope of interval j for j in 1..n-1, continued
\* by two intervals on either side (j in -1..n+1)
AkimaSlope(xp, yp, j) == FDiv(FSub(yp[j + 1], yp[j]), FSub(xp[j + 1], xp[j]))

AkimaExtended(xp, yp) ==
    LET n == Len(xp)
        m0 == FSub(FMul(FInt(2), AkimaSlope(xp, yp, 1)), AkimaSlope(xp, yp, 2))
        mn == FSub(FMul(FInt(2), AkimaSlope(xp, yp, n - 1)), AkimaSlope(xp, yp, n - 2))
    IN  [j \in (-1)..(n + 1) |->
            IF j = -1 THEN FSub(FMul(FInt(2), m0), AkimaSlope(xp, yp, 1))
            ELSE IF j = 0 THEN m0
            ELSE IF j = n THEN mn
            ELSE IF j = n + 1 THEN FSub(FMul(FInt(2), mn), AkimaSlope(xp, yp, n - 1))
            ELSE AkimaSlope(xp, yp, j)]

AkimaWeighted(m, w1, w2, i) ==
    IF FAdd(w1, w2) = Zero THEN FDiv(FAdd(m[i + 1], m[i - 2]), FInt(2))
    ELSE FDiv(FAdd(FMul(w1, m[i - 1]), FMul(w2, m[i])), FAdd(w1, w2))

AkimaDerivatives(xp, m) ==
    [i \in 1..Len(xp) |->
        AkimaWeighted(m, FAbs(FSub(m[i + 1], m[i])), FAbs(FSub(m[i - 1], m[i - 2])), i)]

\* natural cubic spline: the second derivatives M (zero at both ends) solve
\* a tridiagonal system, here by forward elimination and back substitution
RECURSIVE NcsForward(_, _, _)
NcsForward(xp, yp, i) ==
    \* <<c', d'>> of row i (2 <= i <= n-1) after elimination
    LET h0 == FSub(xp[i], xp[i - 1])
        h1 == FSub(xp[i + 1], xp[i])
        rhs == FMul(FInt(6), FSub(FDiv(FSub(yp[i + 1], yp[i]), h1),
                                  FDiv(FSub(yp[i], yp[i - 1]), h0)))
        diag == FMul(FInt(2), FAdd(h0, h1))
        prev == IF i = 2 THEN <<Zero, Zero>> ELSE NcsForward(xp, yp, i - 1)
        den == FSub(diag, FMul(h0, prev[1]))
    IN  <<FDiv(h1, den), FDiv(FSub(rhs, FMul(h0, prev[2])), den)>>

RECURSIVE NcsSecond(_, _, _)
NcsSecond(xp, yp, i) ==
    IF i = 1 \/ i = Len(xp) THEN Zero
    ELSE FSub(NcsForward(xp, yp, i)[2],
              FMul(NcsForward(xp, yp, i)[1], NcsSecond(xp, yp, i + 1)))

NcsPiece(xp, yp, M, k, t) ==
    LET h == FSub(xp[k + 1], xp[k])
        a == FSub(xp[k + 1], t)
        b == FSub(t, xp[k])
    IN  FAdd(FAdd(FDiv(FMul(M[k], FPow(a, 3)), FMul(FInt(6), h)),
                  FDiv(FMul(M[k + 1], FPow(b, 3)), FMul(FInt(6), h))),
             FAdd(FMul(FSub(FDiv(yp[k], h), FDiv(FMul(M[k], h), FInt(6))), a),
                  FMul(FSub(FDiv(yp[k + 1], h), FDiv(FMul(M[k + 1], h), FInt(6))), b)))

NcsAt(xp, yp, M, t) == NcsPiece(xp, yp, M, Piece(xp, t), t)

InterpMethods == {"linear", "ncubic", "pchip", "akima"}

\* the interpolant of (xp, yp) by the named method, evaluated at every x[i]
Interp(method, xp, yp, x) ==
    IF method = "pchip" THEN pchip(xp, yp, x).val
    ELSE IF method = "linear" THEN [i \in 1..Len(x) |-> LinearAt(xp, yp, x[i])]
    ELSE IF method = "akima"
         THEN [i \in 1..Len(x) |->
                 HermiteAt(xp, yp, AkimaDerivatives(xp, AkimaExtended(xp, yp)), x[i])]
    ELSE [i \in 1..Len(x) |->
             NcsAt(xp, yp, [k \in 1..Len(xp) |-> NcsSecond(xp, yp, k)], x[i])]

----------------------------------------------------------------------------
(* Spline strategies.  A strategy instance is a record: cls is its class,   *)
(* B the control points of its Bezier curve (<<>> while it has no attribute *)
(* B), fresh whether no method has been called on it yet, and default       *)
(* whether FFDSpline.__init__ created it.                                   *)

NewSpline(cls, default) == [cls |-> cls, default |-> default, B |-> <<>>, fresh |-> TRUE]

\* the result of a method of a strategy: exception, returned value, and the
\* instance as the method left it
Res(e, v, inst) == [err |-> e, val |-> v, inst |-> inst]

\* a fit through as many control points as both arrays hold
pchipSpline_call_truncating(inst, x, Cx, C) ==
    IF Len(C) < Len(Cx)
    THEN Res(pchip(SubSeq(Cx, 1, Len(C)), C, x).err,
             pchip(SubSeq(Cx, 1, Len(C)), C, x).val, [inst EXCEPT !.fresh = FALSE])
    ELSE Res(pchip(Cx, SubSeq(C, 1, Len(Cx)), x).err,
             pchip(Cx, SubSeq(C, 1, Len(Cx)), x).val, [inst EXCEPT !.fresh = FALSE])

pchipSpline_call(inst, x, Cx, C) ==
    LET r == pchip(Cx, C, x)
    IN  Res(r.err, r.val, [inst EXCEPT !.fresh = FALSE])

pchipSpline_initialize(inst, x, xp, yp) == pchipSpline_call(inst, x, xp, yp)

BezierSpline_call(inst, x, Cx, C) ==
    IF inst.B = <<>>
    THEN Res("AttributeError", <<>>, [inst EXCEPT !.fresh = FALSE])
    ELSE LET i2 == [inst EXCEPT !.B = <<Cx, C>>, !.fresh = FALSE]
         IN  IF Len(Cx) # Len(C)
             THEN Res("RuntimeError", <<>>, i2)
             ELSE Res("none", [i \in 1..Len(x) |-> BezierCurveAt(i2.B, x[i])], i2)

BezierSpline_initialize(inst, x, xp, yp) ==
    IF ~PGL_installed
    THEN Res("NameError", <<>>, [inst EXCEPT !.fresh = FALSE])
    ELSE BezierSpline_call([inst EXCEPT !.B = <<xp, yp>>, !.fresh = FALSE], x, xp, yp)

spline_dict == {"pchip", "bezier"}

spline_initialize(inst, x, xp, yp) ==
    IF inst.cls = "pchip" THEN pchipSpline_initialize(inst, x, xp, yp)
    ELSE BezierSpline_initialize(inst, x, xp, yp)

spline_call(inst, x, Cx, C) ==
    IF inst.cls = "pchip" THEN pchipSpline_call(inst, x, Cx, C)
    ELSE BezierSpline_call(inst, x, Cx, C)

----------------------------------------------------------------------------
(* fusedwind.lib.geom_tools.curvature: discrete signed curvature of the     *)
(* curve (x[i], y[i]) from finite-difference derivative estimates, centred  *)
(* in the interior and one-sided at the two ends.  A curvature value        *)
(* num / base^(3/2) is kept as the pair <<num, base>>.                      *)

gradient(f) ==
    LET n == Len(f)
    IN  [i \in 1..n |->
            IF i = 1 THEN FSub(f[2], f[1])
            ELSE IF i = n THEN FSub(f[n], f[n - 1])
            ELSE FDiv(FSub(f[i + 1], f[i - 1]), FInt(2))]

curvature(x, y) ==
    LET dx == gradient(x)
        dy == gradient(y)
        ddx == gradient(dx)
        ddy == gradient(dy)
    IN  [i \in 1..Len(x) |->
            <<FSub(FMul(dx[i], ddy[i]), FMul(dy[i], ddx[i])),
              FAdd(FMul(dx[i], dx[i]), FMul(dy[i], dy[i]))>>]

zeros(n) == [i \in 1..n |-> Zero]
zero_curv(n) == [i \in 1..n |-> <<Zero, One>>]

----------------------------------------------------------------------------
(* FFDSpline                                                                *)

\* OptionsDictionary.__setitem__ for the option 'spline_type', declared with
\* values=['pchip', 'bezier']: the exception it raises, or "none"
spline_options_setitem(value) ==
    IF value \in {"pchip", "bezier"} THEN "none" ELSE "ValueError"

\* set_spline with the default strategy taken for a name it does not know
set_spline_defaulting(f, spline_type, default) ==
    [err |-> "none",
     f |-> [f EXCEPT !.spline = NewSpline(IF spline_type \in spline_dict
                                          THEN spline_type ELSE "bezier", default),
                     !.spline_type = IF spline_type \in spline_dict
                                     THEN spline_type ELSE "bezier"]]

\* FFDSpline.set_spline: the exception and the instance afterwards
set_spline(f, spline_type, default) ==
    IF spline_type \notin spline_dict
    THEN [err |-> "KeyError", f |-> f]
    ELSE [err |-> spline_options_setitem(spline_type),
          f |-> [f EXCEPT !.spline = NewSpline(spline_type, default),
                          !.spline_type = spline_type]]

\* FFDSpline.__init__(name, s, P, Cx, scaler)
FFDSpline_init(s, P, Cx, scaler) ==
    set_spline([Cx |-> Cx,
                spline_type |-> "bezier",
                spline |-> <<>>,
                s |-> s,
                scaler |-> scaler,
                nC |-> Len(Cx),
                Pinit |-> P,
                _size |-> Len(P),
                _init_called |-> FALSE,
                _P |-> <<>>],
               "bezier", TRUE).f

\* FFDSpline.solve_nonlinear, lines 461-464, given the result rc of the call
\* self.spline(self.s, self.Cx, C): the exception, the instance and the
\* unknowns afterwards, and the strategy methods called
FFDSpline_outputs(f, P) == [P |-> P, curv |-> curvature(f.s, P)]

\* the update with the scale factor left out of the sum
FFDSpline_update_unscaled(f, unknowns, rc, tr) ==
    IF rc.err # "none"
    THEN [trace |-> tr,
          err |-> rc.err,
          f |-> [f EXCEPT !.spline = rc.inst],
          unknowns |-> unknowns]
    ELSE [trace |-> tr,
          err |-> "none",
          f |-> [f EXCEPT !.spline = rc.inst, !._P = rc.val],
          unknowns |-> FFDSpline_outputs(f, VAdd(f.Pinit, rc.val))]

\* the update with the perturbation added to that of the call before
FFDSpline_update_accumulating(f, unknowns, rc, tr) ==
    IF rc.err # "none"
    THEN [trace |-> tr,
          err |-> rc.err,
          f |-> [f EXCEPT !.spline = rc.inst],
          unknowns |-> unknowns]
    ELSE [trace |-> tr,
          err |-> "none",
          f |-> [f EXCEPT !.spline = rc.inst, !._P = rc.val],
          unknowns |-> FFDSpline_outputs(f, VAdd(f.Pinit,
                          VScale(IF f._P = <<>> THEN rc.val ELSE VAdd(f._P, rc.val),
                                 f.scaler)))]

FFDSpline_update(f, unknowns, rc, tr) ==
    IF rc.err # "none"
    THEN [trace |-> tr,
          err |-> rc.err,
          f |-> [f EXCEPT !.spline = rc.inst],
          unknowns |-> unknowns]
    ELSE [trace |-> tr,
          err |-> "none",
          f |-> [f EXCEPT !.spline = rc.inst, !._P = rc.val],
          unknowns |-> FFDSpline_outputs(f, VAdd(f.Pinit, VScale(rc.val, f.scaler)))]

\* lines 456-460, given the result ri of self.spline.initialize(s, Cx, C)
FFDSpline_initialized(f, unknowns, C, ri) ==
    IF ri.err # "none"
    THEN [trace |-> <<"set_spline", "initialize">>,
          err |-> ri.err,
          f |-> [f EXCEPT !.spline = ri.inst],
          unknowns |-> unknowns]
    ELSE FFDSpline_update(f, unknowns, spline_call(ri.inst, f.s, f.Cx, C),
                          <<"set_spline", "initialize", "call">>)

\* the instance after self.set_spline(self.spline_options['spline_type'])
FFDSpline_respline(f, unknowns, C, f1) ==
    FFDSpline_initialized(f1, unknowns, C, spline_initialize(f1.spline, f1.s, f1.Cx, C))

\* solve_nonlinear that evaluates the strategy instance the component holds
FFDSpline_solve_nonlinear_held(f, unknowns, C) ==
    FFDSpline_update(f, unknowns, spline_call(f.spline, f.s, f.Cx, C), <<"call">>)

\* FFDSpline.solve_nonlinear with params[name + '_C'] = C
FFDSpline_solve_nonlinear(f, unknowns, C) ==
    IF ~f._init_called
    THEN FFDSpline_respline(f, unknowns, C, set_spline(f, f.spline_type, FALSE).f)
    ELSE FFDSpline_update(f, unknowns, spline_call(f.spline, f.s, f.Cx, C), <<"call">>)

----------------------------------------------------------------------------
(* Planform resampling                                                      *)

Channels == {"s", "x", "y", "z", "rot_x", "rot_y", "rot_z", "chord", "rthick", "p_le"}

\* PGL.main.planform.redistribute_planform(pf, dist, s, spline_type), the
\* resampling collaborator, for dist = []: every channel but s interpolated
\* over pf['s'] with the named method, s replaced by the new distribution; a
\* distribution that leaves the domain of pf['s'], and an unknown method, are
\* rejected.  Whether the mapping it returns also carries an interpolated
\* 'athick' is left open (with_athick).
PGL_redistribute_planform(pf, s, spline_type, with_athick) ==
    IF spline_type \notin InterpMethods
       \/ \E i \in 1..Len(s) : FLt(s[i], pf["s"][1]) \/ FLt(pf["s"][Len(pf["s"])], s[i])
    THEN [fitted |-> {}, err |-> "ConfigurationError", val |-> <<>>]
    ELSE [fitted |-> {<<k, spline_type>> :
                        k \in (Channels \ {"s"}) \cup (IF with_athick THEN {"athick"} ELSE {})},
          err |-> "none",
          val |-> [k \in Channels \cup (IF with_athick THEN {"athick"} ELSE {}) |->
                     IF k = "s" THEN s
                     ELSE IF k = "athick"
                          THEN Interp(spline_type, pf["s"], VMul(pf["chord"], pf["rthick"]), s)
                     ELSE Interp(spline_type, pf["s"], pf[k], s)]]

\* redistribute_planform of this module: imports the collaborator and
\* delegates to it
redistribute_planform(pf, s, spline_type, with_athick) ==
    IF ~PGL_installed
    THEN [fitted |-> {}, err |-> "ImportError", val |-> <<>>]
    ELSE PGL_redistribute_planform(pf, s, spline_type, with_athick)

\* lines 405-408: every entry of pf_in through pchip
pchip_planform(pf_in, s_new) ==
    [fitted |-> {<<k, "pchip">> : k \in DOMAIN pf_in},
     err |-> pchip(pf_in["s"], pf_in["s"], s_new).err,
     val |-> [k \in DOMAIN pf_in |-> pchip(pf_in["s"], pf_in[k], s_new).val]]

\* PGLRedistributedPlanform.__init__(name, size_in, s_new)
PGLRedistributedPlanform_init(name, s_new) ==
    [spline_type |-> "akima", s_new |-> s_new, _suffix |-> name]

\* the assignment loop alone, without the product that follows it
PGLRedistributedPlanform_assign_loop_only(unknowns, r) ==
    IF r.err # "none"
    THEN [fitted |-> r.fitted, err |-> r.err, unknowns |-> unknowns]
    ELSE [fitted |-> r.fitted,
          err |-> "none",
          unknowns |-> [k \in DOMAIN unknowns |->
                          IF k \in DOMAIN r.val THEN r.val[k] ELSE unknowns[k]]]

\* lines 410-412, given the resampled mapping r.val
PGLRedistributedPlanform_assign(unknowns, r) ==
    IF r.err # "none"
    THEN [fitted |-> r.fitted, err |-> r.err, unknowns |-> unknowns]
    ELSE [fitted |-> r.fitted,
          err |-> "none",
          unknowns |-> [k \in DOMAIN unknowns |->
                          IF k = "athick" THEN VMul(r.val["chord"], r.val["rthick"])
                          ELSE IF k \in DOMAIN r.val THEN r.val[k]
                          ELSE unknowns[k]]]

\* the call of the collaborator without the test of _PGL_installed
PGLRedistributedPlanform_solve_nonlinear_unguarded(c, params, unknowns, with_athick) ==
    PGLRedistributedPlanform_assign(unknowns,
        redistribute_planform(params, c.s_new, c.spline_type, with_athick))

\* the call of the collaborator with its default method instead of the
\* component's spline_type
PGLRedistributedPlanform_solve_nonlinear_default(c, params, unknowns, with_athick) ==
    IF PGL_installed
    THEN PGLRedistributedPlanform_assign(unknowns,
             redistribute_planform(params, c.s_new, "akima", with_athick))
    ELSE PGLRedistributedPlanform_assign(unknowns, pchip_planform(params, c.s_new))

\* PGLRedistributedPlanform.solve_nonlinear with the planform params
PGLRedistributedPlanform_solve_nonlinear(c, params, unknowns, with_athick) ==
    IF PGL_installed
    THEN PGLRedistributedPlanform_assign(unknowns,
             redistribute_planform(params, c.s_new, c.spline_type, with_athick))
    ELSE PGLRedistributedPlanform_assign(unknowns, pchip_planform(params, c.s_new))

----------------------------------------------------------------------------
(* read_blade_planform                                                      *)

\* the square root of a square: of an integer, and of a rational
ISqrt(n) == CHOOSE r \in 0..n : r * r = n
FSqrt(a) == <<ISqrt(a[1]), ISqrt(a[2])>>

\* fusedwind.lib.geom_tools.calculate_length: the running length of the
\* polyline through the points, 0 at the first
segment_length(points, i) ==
    FSqrt(FSum([k \in 1..3 |->
                   FMul(FSub(points[i + 1][k], points[i][k]),
                        FSub(points[i + 1][k], points[i][k]))], 3))

calculate_length(points) ==
    [i \in 1..Len(points) |->
        FSum([j \in 1..(i - 1) |-> segment_length(points, j)], i - 1)]

\* numpy's ndarray.max(): nan if any element is nan
amax(v) ==
    IF \E i \in 1..Len(v) : IsNaN(v[i]) THEN NaN
    ELSE v[CHOOSE i \in 1..Len(v) : \A j \in 1..Len(v) : ~FLt(v[i], v[j])]

\* the column data[:, c] of a table, c counted from 0
column(data, c) == [i \in 1..Len(data) |-> data[i][c + 1]]

\* lines 183-196, given the table, the running length s of its axis and the
\* largest value of its rthick column
read_blade_planform_dict(data, s, rthick_max) ==
    [x      |-> VDivS(column(data, 0), data[Len(data)][3]),
     y      |-> VDivS(column(data, 1), data[Len(data)][3]),
     s      |-> VDivS(s, s[Len(s)]),
     blade_length |-> data[Len(data)][3],
     smax   |-> s[Len(s)],
     z      |-> VDivS(column(data, 2), data[Len(data)][3]),
     rot_x  |-> column(data, 3),
     rot_y  |-> column(data, 4),
     rot_z  |-> column(data, 5),
     chord  |-> VDivS(column(data, 6), data[Len(data)][3]),
     rthick |-> VDivS(column(data, 7), rthick_max),
     athick |-> VMul(VDivS(column(data, 7), rthick_max),
                     VDivS(column(data, 6), data[Len(data)][3])),
     p_le   |-> column(data, 8)]

\* read_blade_planform(filename) for a file that holds the rows of data;
\* np.loadtxt returns a one-dimensional array for a file of one row, which
\* data[:, [0, 1, 2]] cannot index
read_blade_planform(data) ==
    IF Len(data) < 2 THEN Raise("IndexError")
    ELSE Ok(read_blade_planform_dict(
                data,
                calculate_length([i \in 1..Len(data) |-> SubSeq(data[i], 1, 3)]),
                amax(column(data, 7))))

----------------------------------------------------------------------------
(* SplinedBladePlanform, a Group of the framework: its own attributes       *)
(* _size, pfinit and _vars, the subsystems added to it (name, component,    *)
(* promoted variables) and the connections made in it.  A component is      *)
(* described by its class, its parameters and its outputs; an FFDSpline     *)
(* also by its instance f.                                                  *)

\* the names add_spline and configure build from a channel name
blade_ae ==
    [x |-> "blade_ae:x",
     y |-> "blade_ae:y",
     s |-> "blade_ae:s",
     z |-> "blade_ae:z",
     rot_x |-> "blade_ae:rot_x",
     rot_y |-> "blade_ae:rot_y",
     rot_z |-> "blade_ae:rot_z",
     chord |-> "blade_ae:chord",
     rthick |-> "blade_ae:rthick",
     p_le |-> "blade_ae:p_le"]

blade_ae_C ==
    [x |-> "blade_ae:x_C",
     y |-> "blade_ae:y_C",
     s |-> "blade_ae:s_C",
     z |-> "blade_ae:z_C",
     rot_x |-> "blade_ae:rot_x_C",
     rot_y |-> "blade_ae:rot_y_C",
     rot_z |-> "blade_ae:rot_z_C",
     chord |-> "blade_ae:chord_C",
     rthick |-> "blade_ae:rthick_C",
     p_le |-> "blade_ae:p_le_C"]

blade_ae_curv ==
    [x |-> "blade_ae:x_curv",
     y |-> "blade_ae:y_curv",
     s |-> "blade_ae:s_curv",
     z |-> "blade_ae:z_curv",
     rot_x |-> "blade_ae:rot_x_curv",
     rot_y |-> "blade_ae:rot_y_curv",
     rot_z |-> "blade_ae:rot_z_curv",
     chord |-> "blade_ae:chord_curv",
     rthick |-> "blade_ae:rthick_curv",
     p_le |-> "blade_ae:p_le_curv"]

name_c ==
    [x |-> "x_c",
     y |-> "y_c",
     s |-> "s_c",
     z |-> "z_c",
     rot_x |-> "rot_x_c",
     rot_y |-> "rot_y_c",
     rot_z |-> "rot_z_c",
     chord |-> "chord_c",
     rthick |-> "rthick_c",
     p_le |-> "p_le_c"]

name_s ==
    [x |-> "x_s",
     y |-> "y_s",
     s |-> "s_s",
     z |-> "z_s",
     rot_x |-> "rot_x_s",
     rot_y |-> "rot_y_s",
     rot_z |-> "rot_z_s",
     chord |-> "chord_s",
     rthick |-> "rthick_s",
     p_le |-> "p_le_s"]

\* the channels add_spline accepts
SplineVars == {"x", "y", "rot_x", "rot_y", "rot_z", "chord", "rthick", "p_le"}

IndepVarComp(name, val) ==
    [val |-> val, f |-> <<>>, params |-> {}, class |-> "IndepVarComp", outputs |-> {name}]

FFDSpline(name, s, P, Cx, scaler) ==
    [val |-> <<>>,
     f |-> FFDSpline_init(s, P, Cx, scaler),
     params |-> {blade_ae_C[name]},
     class |-> "FFDSpline",
     outputs |-> {blade_ae[name], blade_ae_curv[name]}]

ScaleChord(size) ==
    [val |-> <<>>,
     f |-> <<>>,
     params |-> {"blade_scale", "blade_ae:chord_in"},
     class |-> "ScaleChord",
     outputs |-> {"blade_ae:chord"}]

ComputeAthick(size) ==
    [val |-> <<>>,
     f |-> <<>>,
     params |-> {"blade_ae:chord", "blade_ae:rthick"},
     class |-> "ComputeAthick",
     outputs |-> {"blade_ae:athick"}]

ComputeSmax(pf) ==
    [val |-> <<>>,
     f |-> <<>>,
     params |-> {"blade_ae:x", "blade_ae:y", "blade_ae:z"},
     class |-> "ComputeSmax",
     outputs |-> {"blade_curve_length"}]

\* the result of a method of the group: exception, and the group afterwards
GRes(e, g) == [err |-> e, g |-> g]

SubsystemNames(g) == {sub.name : sub \in g.subsystems}
Subsystem(g, name) == CHOOSE sub \in g.subsystems : sub.name = name

\* Group.add(name, system, promotes) of the framework, which refuses a name
\* the group already holds
Group_add(g, name, system, promotes) ==
    IF name \in SubsystemNames(g) THEN GRes("RuntimeError", g)
    ELSE GRes("none", [g EXCEPT !.subsystems =
             @ \cup {[name |-> name, system |-> system, promotes |-> promotes]}])

\* Group.connect(source, target)
Group_connect(g, source, target) ==
    [g EXCEPT !.connections = @ \cup {<<source, target>>}]

\* c.spline_options['spline_type'] = spline_type on the subsystem called name
Subsystem_set_option(g, name, spline_type) ==
    [g EXCEPT !.subsystems =
        {IF sub.name = name
         THEN [sub EXCEPT !.system.f.spline_type = spline_type]
         ELSE sub : sub \in @}]

\* SplinedBladePlanform.__init__(pf)
SplinedBladePlanform_init(pf) ==
    [_size |-> Len(pf["s"]),
     subsystems |-> {},
     connections |-> {},
     pfinit |-> pf,
     _vars |-> <<>>]

\* add_spline for chord with the scaling component left out
add_spline_scaler_missing(g) == GRes("none", g)

\* add_spline, lines 592-593: the scaling component that follows chord_s
add_spline_scaler(g) ==
    \* self.add('chord_scaler', ...) and self.connect(...)
    IF "chord_scaler" \in SubsystemNames(g) THEN GRes("RuntimeError", g)
    ELSE GRes("none",
              Group_connect(
                  Group_add(g, "chord_scaler", ScaleChord(g._size),
                            {"blade_scale", "blade_ae:chord"}).g,
                  "chord_s.blade_ae:chord", "chord_scaler.blade_ae:chord_in"))

\* add_spline, lines 591 and 603: the assignment to the option of the
\* FFDSpline just added, and what follows it
add_spline_option(g, name, spline_type) ==
    IF spline_options_setitem(spline_type) # "none"
    THEN GRes(spline_options_setitem(spline_type), g)
    ELSE IF name = "chord"
         THEN add_spline_scaler(Subsystem_set_option(g, name_s[name], spline_type))
         ELSE GRes("none", Subsystem_set_option(g, name_s[name], spline_type))

\* add_spline, lines 586-590 and 597-602: the FFDSpline of the channel
add_spline_ffd(g, name, Cx, spline_type, scaler) ==
    IF name_s[name] \in SubsystemNames(g) THEN GRes("RuntimeError", g)
    ELSE add_spline_option(
             Group_add(g, name_s[name],
                       FFDSpline(name, g.pfinit["s"], g.pfinit[name], Cx, scaler),
                       IF name = "chord" THEN {"blade_ae:chord_C"}
                       ELSE {blade_ae[name], blade_ae_C[name]}).g,
             name, spline_type)

\* add_spline, lines 584-585 and 595-596: the control points of the channel
add_spline_indep(g, name, Cx, spline_type, scaler) ==
    IF name_c[name] \in SubsystemNames(g) THEN GRes("RuntimeError", g)
    ELSE add_spline_ffd(
             Group_add(g, name_c[name],
                       IndepVarComp(blade_ae_C[name], zeros(Len(Cx))), {"*"}).g,
             name, Cx, spline_type, scaler)

\* add_spline with the list extended before the channel is checked
add_spline_append_first(g, name, Cx, spline_type, scaler) ==
    IF name \notin SplineVars
    THEN GRes("RuntimeError", [g EXCEPT !._vars = Append(@, name)])
    ELSE add_spline_indep([g EXCEPT !._vars = Append(@, name)],
                          name, Cx, spline_type, scaler)

\* SplinedBladePlanform.add_spline(name, Cx, spline_type, scaler)
add_spline(g, name, Cx, spline_type, scaler) ==
    IF name \notin SplineVars THEN GRes("RuntimeError", g)
    ELSE add_spline_indep([g EXCEPT !._vars = Append(@, name)],
                          name, Cx, spline_type, scaler)

\* configure, lines 614-615: the loop over the channels without a spline,
\* in the order the set yields them
RECURSIVE configure_indeps(_, _)
configure_indeps(g, indeps) ==
    IF indeps = {} THEN GRes("none", g)
    ELSE IF name_c[CHOOSE name \in indeps : TRUE] \in SubsystemNames(g)
         THEN GRes("RuntimeError", g)
         ELSE configure_indeps(
                  Group_add(g, name_c[CHOOSE name \in indeps : TRUE],
                            IndepVarComp(blade_ae[CHOOSE name \in indeps : TRUE],
                                         g.pfinit[CHOOSE name \in indeps : TRUE]),
                            {blade_ae[CHOOSE name \in indeps : TRUE]}).g,
                  indeps \ {CHOOSE name \in indeps : TRUE})

\* configure, lines 622-624: the thickness component and its connections
configure_athick(g) ==
    IF "athick_c" \in SubsystemNames(g) THEN GRes("RuntimeError", g)
    ELSE GRes("none",
              [(Group_add(g, "athick_c", ComputeAthick(g._size),
                          {"blade_ae:athick"}).g)
               EXCEPT !.connections = @ \cup {
                   <<"blade_ae:rthick", "athick_c.blade_ae:rthick">>,
                   <<"blade_ae:chord", "athick_c.blade_ae:chord">>}])

\* configure, lines 618-621, given the result of the loop: the length
\* component and its connections
configure_smax(r) ==
    IF r.err # "none" THEN r
    ELSE IF "smax_c" \in SubsystemNames(r.g) THEN GRes("RuntimeError", r.g)
    ELSE configure_athick(
             [(Group_add(r.g, "smax_c", ComputeSmax(r.g.pfinit),
                         {"blade_curve_length"}).g)
              EXCEPT !.connections = @ \cup {
                  <<"blade_ae:x", "smax_c.blade_ae:x">>,
                  <<"blade_ae:y", "smax_c.blade_ae:y">>,
                  <<"blade_ae:z", "smax_c.blade_ae:z">>}])

\* SplinedBladePlanform.configure()
configure(g) ==
    configure_smax(
        configure_indeps(g, Channels \ {g._vars[i] : i \in 1..Len(g._vars)}))

----------------------------------------------------------------------------
(* Inputs                                                                   *)

MaxLenC == 3    \* longest control vector handed to solve_nonlinear

CVals == {FInt(-1), FInt(1)}
CVectors == UNION {[1..n -> CVals] : n \in 1..MaxLenC}

\* constructor arguments (s, P, Cx, scaler); the control abscissas are
\* equally spaced
FFDArgs == {
    [Cx |-> <<Q(0, 1), Q(1, 2), Q(1, 1)>>,
     s |-> <<Q(0, 1), Q(1, 4), Q(1, 2), Q(1, 1)>>,
     P |-> <<Q(1, 1), Q(3, 4), Q(1, 2), Q(1, 10)>>,
     scaler |-> Q(1, 1)],
    [Cx |-> <<Q(0, 1), Q(1, 1)>>,
     s |-> <<Q(0, 1), Q(1, 4), Q(1, 2), Q(1, 1)>>,
     P |-> <<Q(1, 1), Q(3, 4), Q(1, 2), Q(1, 10)>>,
     scaler |-> Q(-2, 1)],
    [Cx |-> <<Q(0, 1), Q(1, 2), Q(1, 1)>>,
     s |-> <<Q(0, 1), Q(1, 2), Q(1, 1)>>,
     P |-> <<Q(0, 1), Q(-1, 2), Q(3, 1)>>,
     scaler |-> Q(1, 2)] }

SplineNames == {"pchip", "bezier", "akima"}

----------------------------------------------------------------------------
(* The FFD component: construction, then any sequence of set_spline,        *)
(* spline_options['spline_type'] = ..., and solve_nonlinear.                *)

InitFFD ==
    /\ PGL_installed \in BOOLEAN
    /\ \E a \in FFDArgs :
          /\ ffd = FFDSpline_init(a.s, a.P, a.Cx, a.scaler)
          /\ ffd_unknowns = [P |-> zeros(Len(a.P)), curv |-> zero_curv(Len(a.P))]
    /\ trace = <<>>
    /\ earlier = <<>>
    /\ NoRDP
    /\ NoPlanform
    /\ NoBlade
    /\ op = [name |-> "__init__", arg |-> <<>>]
    /\ err = "none"

SetSpline(spline_type) ==
    \E r \in {set_spline(ffd, spline_type, FALSE)} :
        /\ ffd' = r.f
        /\ err' = r.err
        /\ op' = [name |-> "set_spline", arg |-> spline_type]
        /\ trace' = <<>>
        /\ UNCHANGED <<PGL_installed, ffd_unknowns, earlier, rdpVars, planform, bladeVars>>

SetOption(spline_type) ==
    \E e \in {spline_options_setitem(spline_type)} :
        /\ ffd' = IF e = "none" THEN [ffd EXCEPT !.spline_type = spline_type] ELSE ffd
        /\ err' = e
        /\ op' = [name |-> "spline_options", arg |-> spline_type]
        /\ trace' = <<>>
        /\ UNCHANGED <<PGL_installed, ffd_unknowns, earlier, rdpVars, planform, bladeVars>>

SolveNonlinear(C) ==
    \E r \in {FFDSpline_solve_nonlinear(ffd, ffd_unknowns, C)} :
        /\ ffd' = r.f
        /\ ffd_unknowns' = r.unknowns
        /\ err' = r.err
        /\ trace' = r.trace
        /\ op' = [name |-> "solve_nonlinear", arg |-> C]
        /\ UNCHANGED <<PGL_installed, earlier, rdpVars, planform, bladeVars>>

NextFFD ==
    \/ \E t \in SplineNames : SetSpline(t)
    \/ \E t \in SplineNames : SetOption(t)
    \/ \E C \in CVectors : SolveNonlinear(C)

SpecFFD == InitFFD /\ [][NextFFD]_vars

----------------------------------------------------------------------------
(* The FFD component in an optimization loop: construction, then any        *)
(* sequence of solve_nonlinear calls with control vectors of length nC and  *)
(* of assignments to spline_options['spline_type'].  earlier keeps the      *)
(* control vector of the call before the last one.                          *)

Evaluate(C) ==
    \E r \in {FFDSpline_solve_nonlinear(ffd, ffd_unknowns, C)} :
        /\ ffd' = r.f
        /\ ffd_unknowns' = r.unknowns
        /\ err' = r.err
        /\ trace' = r.trace
        /\ earlier' = IF op.name = "solve_nonlinear" THEN op.arg ELSE earlier
        /\ op' = [name |-> "solve_nonlinear", arg |-> C]
        /\ UNCHANGED <<PGL_installed, rdpVars, planform, bladeVars>>

NextFFDRepeat ==
    \/ \E C \in [1..ffd.nC -> CVals] : Evaluate(C)
    \/ \E t \in spline_dict : SetOption(t)

SpecFFDRepeat == InitFFD /\ [][NextFFDRepeat]_vars

----------------------------------------------------------------------------
(* The resampling component: construction with the new distribution, then   *)
(* any sequence of assignments to spline_type and solve_nonlinear calls.    *)

\* input planforms: pf(a, b, c) has the grid a, chord b, rthick c
Planform(s, chord, rthick) ==
    [k \in Channels |->
        IF k = "s" THEN s
        ELSE IF k = "chord" THEN chord
        ELSE IF k = "rthick" THEN rthick
        ELSE IF k \in {"x", "y", "rot_y"} THEN [i \in 1..Len(s) |-> FMul(s[i], s[i])]
        ELSE IF k = "z" THEN s
        ELSE [i \in 1..Len(s) |-> FSub(chord[i], rthick[i])]]

Planforms == {
    Planform(<<Q(0, 1), Q(1, 4), Q(1, 2), Q(1, 1)>>,
             <<Q(1, 1), Q(3, 4), Q(1, 2), Q(1, 10)>>,
             <<Q(1, 1), Q(1, 1), Q(1, 2), Q(1, 4)>>),
    Planform(<<Q(0, 1), Q(1, 2), Q(3, 4), Q(1, 1)>>,
             <<Q(1, 2), Q(1, 1), Q(1, 4), Q(1, 2)>>,
             <<Q(1, 1), Q(1, 3), Q(1, 2), Q(1, 5)>>) }

NewDistributions == {
    <<Q(0, 1), Q(1, 4), Q(1, 2), Q(1, 1)>>,
    <<Q(0, 1), Q(1, 3), Q(2, 3)>>,
    <<Q(0, 1), Q(1, 2), Q(3, 2)>>,
    <<Q(-1, 4), Q(1, 8), Q(1, 1)>> }

InitRDP ==
    /\ PGL_installed \in BOOLEAN
    /\ \E s_new \in NewDistributions :
          /\ rdp = PGLRedistributedPlanform_init("_st", s_new)
          /\ rdp_unknowns = [k \in Channels \cup {"athick"} |-> zeros(Len(s_new))]
    /\ fitted = {}
    /\ NoFFD
    /\ NoPlanform
    /\ NoBlade
    /\ op = [name |-> "__init__", arg |-> <<>>]
    /\ err = "none"

\* self.spline_type = spline_type
SetSplineType(spline_type) ==
    /\ rdp' = [rdp EXCEPT !.spline_type = spline_type]
    /\ fitted' = {}
    /\ op' = [name |-> "spline_type", arg |-> spline_type]
    /\ err' = "none"
    /\ UNCHANGED <<PGL_installed, rdp_unknowns, ffdVars, planform, bladeVars>>

Redistribute(params, with_athick) ==
    \E r \in {PGLRedistributedPlanform_solve_nonlinear(rdp, params, rdp_unknowns, with_athick)} :
        /\ rdp_unknowns' = r.unknowns
        /\ fitted' = r.fitted
        /\ err' = r.err
        /\ op' = [name |-> "solve_nonlinear", arg |-> params]
        /\ UNCHANGED <<PGL_installed, rdp, ffdVars, planform, bladeVars>>

NextRDP ==
    \/ \E m \in InterpMethods : SetSplineType(m)
    \/ \E pf \in Planforms, with_athick \in BOOLEAN : Redistribute(pf, with_athick)

SpecRDP == InitRDP /\ [][NextRDP]_vars

----------------------------------------------------------------------------
(* Reading planform tables: any sequence of calls of read_blade_planform.   *)

\* blade axes (x, y, z), with segments of whole length: a straight one, a
\* bent one, one of no length, one whose tip lies at z = 0, one of one row
Axes == {
    <<<<FInt(0), FInt(0), FInt(0)>>, <<FInt(0), FInt(0), FInt(1)>>,
      <<FInt(0), FInt(0), FInt(2)>>>>,
    <<<<FInt(0), FInt(0), FInt(0)>>, <<FInt(3), FInt(0), FInt(4)>>,
      <<FInt(3), FInt(0), FInt(8)>>>>,
    <<<<FInt(0), FInt(0), FInt(0)>>, <<FInt(0), FInt(0), FInt(0)>>>>,
    <<<<FInt(0), FInt(0), FInt(0)>>, <<FInt(1), FInt(0), FInt(0)>>>>,
    <<<<FInt(0), FInt(0), FInt(1)>>>> }

RthickVals == {FInt(-1), Zero, Q(1, 2), FInt(2)}

\* a table of nine columns: the axis, rotations, a chord that tapers,
\* the relative thickness, and the pitch axis
Table(axis, rthick) ==
    [i \in 1..Len(axis) |->
        axis[i] \o <<Zero, FInt(i), Zero, Q(1, i), rthick[i], Q(1, 4)>>]

Tables == UNION {{Table(axis, rthick) : rthick \in [1..Len(axis) -> RthickVals]} :
                 axis \in Axes}

InitRead ==
    /\ PGL_installed \in BOOLEAN
    /\ NoPlanform
    /\ NoFFD
    /\ NoRDP
    /\ NoBlade
    /\ op = [name |-> "import", arg |-> <<>>]
    /\ err = "none"

ReadBladePlanform(data) ==
    \E r \in {read_blade_planform(data)} :
        /\ planform' = r.val
        /\ err' = r.err
        /\ op' = [name |-> "read_blade_planform", arg |-> data]
        /\ UNCHANGED <<PGL_installed, ffdVars, rdpVars, bladeVars>>

NextRead == \E data \in Tables : ReadBladePlanform(data)

SpecRead == InitRead /\ [][NextRead]_vars

----------------------------------------------------------------------------
(* The planform group: construction from an initial planform, then any      *)
(* sequence of add_spline, configure, and of set_spline and                 *)
(* spline_options['spline_type'] = ... on the FFDSpline of a channel.       *)

MaxSplines == 1    \* most calls of add_spline that pass the check of the name

\* names handed to add_spline: the channels it accepts, a channel it does
\* not, and a name that is no channel
AddNames == SplineVars \cup {"z", "twist"}

\* control abscissas and scale factor handed to add_spline
AddArgs == { [Cx |-> <<Q(0, 1), Q(1, 2), Q(1, 1)>>, scaler |-> Q(1, 2)] }

InitBlade ==
    /\ PGL_installed \in BOOLEAN
    /\ \E pf \in Planforms : blade = SplinedBladePlanform_init(pf)
    /\ add_failed = FALSE
    /\ NoPlanform
    /\ NoFFD
    /\ NoRDP
    /\ op = [name |-> "__init__", arg |-> <<>>]
    /\ err = "none"

AddSpline(name, a, spline_type) ==
    /\ name \in SplineVars => Len(blade._vars) < MaxSplines
    /\ \E r \in {add_spline(blade, name, a.Cx, spline_type, a.scaler)} :
          /\ blade' = r.g
          /\ err' = r.err
          /\ add_failed' = (add_failed \/ r.err # "none")
    /\ op' = [name |-> "add_spline", arg |-> <<name, spline_type>>]
    /\ UNCHANGED <<PGL_installed, ffdVars, rdpVars, planform>>

Configure ==
    /\ \E r \in {configure(blade)} :
          /\ blade' = r.g
          /\ err' = r.err
    /\ op' = [name |-> "configure", arg |-> <<>>]
    /\ UNCHANGED <<PGL_installed, ffdVars, rdpVars, planform, add_failed>>

\* the subsystems of the group that are FFDSplines
Engines(g) == {sub.name : sub \in {c \in g.subsystems : c.system.class = "FFDSpline"}}

\* the group with the instance of the FFDSpline called name replaced by f
WithEngine(g, name, f) ==
    [g EXCEPT !.subsystems =
        {IF sub.name = name THEN [sub EXCEPT !.system.f = f] ELSE sub : sub \in @}]

\* blade.<name>.set_spline(spline_type)
EngineSetSpline(name, spline_type) ==
    /\ name \in Engines(blade)
    /\ \E r \in {set_spline(Subsystem(blade, name).system.f, spline_type, FALSE)} :
          /\ blade' = WithEngine(blade, name, r.f)
          /\ err' = r.err
    /\ op' = [name |-> "set_spline", arg |-> <<name, spline_type>>]
    /\ UNCHANGED <<PGL_installed, ffdVars, rdpVars, planform, add_failed>>

\* blade.<name>.spline_options['spline_type'] = spline_type
EngineSetOption(name, spline_type) ==
    /\ name \in Engines(blade)
    /\ \E e \in {spline_options_setitem(spline_type)} :
          /\ blade' = IF e = "none" THEN Subsystem_set_option(blade, name, spline_type)
                      ELSE blade
          /\ err' = e
    /\ op' = [name |-> "spline_options", arg |-> <<name, spline_type>>]
    /\ UNCHANGED <<PGL_installed, ffdVars, rdpVars, planform, add_failed>>

NextBlade ==
    \/ \E name \in AddNames, a \in AddArgs, t \in SplineNames : AddSpline(name, a, t)
    \/ Configure
    \/ \E name \in {name_s[k] : k \in SplineVars}, t \in SplineNames :
          EngineSetSpline(name, t)
    \/ \E name \in {name_s[k] : k \in SplineVars}, t \in SplineNames :
          EngineSetOption(name, t)

SpecBlade == InitBlade /\ [][NextBlade]_vars

----------------------------------------------------------------------------
(* Claims about the FFD component                                           *)

\* the perturbation a strategy of class cls returns for targets x
StrategyValue(cls, x, Cx, C) ==
    IF cls = "pchip" THEN pchip(Cx, C, x).val
    ELSE [i \in 1..Len(x) |-> BezierCurveAt(<<Cx, C>>, x[i])]

\* C1: on a call of solve_nonlinear that follows a successful call with no
\* change of strategy in between, the strategy is neither re-created nor
\* re-initialized: only its evaluation is invoked.
C1_InitializeOnlyOnChange ==
    [][(/\ op.name = "solve_nonlinear" /\ err = "none"
        /\ op'.name = "solve_nonlinear" /\ Len(op'.arg) = ffd.nC)
       => trace' = <<"call">>]_vars

\* C2: a call of solve_nonlinear with a control vector C of length nC (with a
\* strategy whose collaborator is present) returns, and its outputs are
\* P[i] = Pinit[i] + delta[i] * scaler for every i, with delta the strategy's
\* values at s for (Cx, C), and curv the curvature of the pairs (s[i], P[i]).
C2_Output ==
    (/\ op.name = "solve_nonlinear" /\ Len(op.arg) = ffd.nC
     /\ (ffd.spline_type = "pchip" \/ PGL_installed))
    => /\ err = "none"
       /\ Len(ffd_unknowns.P) = Len(ffd.s)
       /\ \A i \in 1..Len(ffd.s) :
             ffd_unknowns.P[i] =
                FAdd(ffd.Pinit[i],
                     FMul(StrategyValue(ffd.spline_type, ffd.s, ffd.Cx, op.arg)[i],
                          ffd.scaler))
       /\ ffd_unknowns.curv = curvature(ffd.s, ffd_unknowns.P)

C2_Witness ==
    /\ op.name = "solve_nonlinear" /\ err = "none"
    /\ ffd.scaler # One
    /\ \E i \in 1..Len(ffd.s) : ffd_unknowns.P[i] # ffd.Pinit[i]
    /\ \E i \in 1..Len(ffd.s) : ffd_unknowns.curv[i][1] # Zero

FreshEvaluate(a, spline_type, C) ==
    FFDSpline_solve_nonlinear(
        [FFDSpline_init(a.s, a.P, a.Cx, a.scaler) EXCEPT !.spline_type = spline_type],
        [P |-> zeros(Len(a.P)), curv |-> zero_curv(Len(a.P))], C)

\* C11: after any sequence of solve_nonlinear calls, the instance still holds
\* the s, Pinit, Cx, nC and scaler it was constructed with, and the last call
\* ended as the first call of a new instance with the same arguments and
\* strategy ends for the same control vector: same exception, and on success
\* the same P and curv, with the Bezier control points those of the call
C11_HistoryIndependent ==
    op.name = "solve_nonlinear" =>
        \E a \in FFDArgs :
            /\ ffd.s = a.s /\ ffd.Pinit = a.P /\ ffd.Cx = a.Cx
            /\ ffd.nC = Len(a.Cx) /\ ffd.scaler = a.scaler
            /\ err = FreshEvaluate(a, ffd.spline_type, op.arg).err
            /\ err = "none" =>
                  /\ ffd_unknowns = FreshEvaluate(a, ffd.spline_type, op.arg).unknowns
                  /\ ffd.spline.B = IF ffd.spline_type = "bezier"
                                    THEN <<ffd.Cx, op.arg>> ELSE <<>>

\* a Bezier evaluation has succeeded after a call with another control vector
C11_Witness ==
    /\ op.name = "solve_nonlinear" /\ err = "none"
    /\ ffd.spline_type = "bezier"
    /\ earlier # <<>> /\ earlier # op.arg
    /\ ffd_unknowns.P # ffd.Pinit

\* C12: every call of solve_nonlinear works with an instance of the strategy
\* that spline_options['spline_type'] names when the call is made, created
\* by the call itself and so never the instance of the constructor; the
\* call leaves the option as it was, runs initialize on the instance before
\* it evaluates it, and on success the perturbation it keeps is that
\* strategy's value for the control vector
C12_StrategyFollowsOption ==
    [][op'.name = "solve_nonlinear"
       => /\ ffd'.spline_type = ffd.spline_type
          /\ ffd'.spline.cls = ffd.spline_type
          /\ ~ffd'.spline.default
          /\ trace' \in {<<"set_spline", "initialize">>,
                         <<"set_spline", "initialize", "call">>}
          /\ err' = "none"
             => /\ trace' = <<"set_spline", "initialize", "call">>
                /\ ffd'._P = StrategyValue(ffd.spline_type, ffd.s, ffd.Cx, op'.arg)
      ]_vars

\* a component whose option was set to pchip has evaluated a pchip instance
\* that is not the one of its constructor
C12_Witness ==
    /\ op.name = "solve_nonlinear" /\ err = "none"
    /\ ffd.spline_type = "pchip"
    /\ ffd.spline.cls = "pchip" /\ ~ffd.spline.default /\ ~ffd.spline.fresh
    /\ trace = <<"set_spline", "initialize", "call">>

----------------------------------------------------------------------------
(* Claims about the resampling component                                    *)

Resampled == op.name = "solve_nonlinear" /\ rdp # <<>> /\ err = "none"

OutOfDomain(s_new, s) ==
    \E i \in 1..Len(s_new) : FLt(s_new[i], s[1]) \/ FLt(s[Len(s)], s_new[i])

\* C3: after a resampling call, on either path, the output athick is the
\* elementwise product of the output chord and the output rthick, also when
\* the collaborator's mapping carries an interpolated athick.
C3_AthickIsProduct ==
    Resampled =>
        /\ Len(rdp_unknowns["athick"]) = Len(rdp.s_new)
        /\ \A i \in 1..Len(rdp.s_new) :
              FEq(rdp_unknowns["athick"][i],
                  FMul(rdp_unknowns["chord"][i], rdp_unknowns["rthick"][i]))

C3_Witness ==
    /\ Resampled
    /\ <<"athick", rdp.spline_type>> \in fitted
    /\ rdp_unknowns["athick"] #
          Interp(rdp.spline_type, op.arg["s"],
                 VMul(op.arg["chord"], op.arg["rthick"]), rdp.s_new)

\* C4: without the collaborator a resampling call does not end with the
\* import error: it returns, every channel having gone through pchip, with
\* all ten channels and athick written.
C4_FallbackCompletes ==
    (op.name = "solve_nonlinear" /\ rdp # <<>> /\ ~PGL_installed) =>
        /\ err = "none"
        /\ fitted = {<<k, "pchip">> : k \in Channels}
        /\ DOMAIN rdp_unknowns = Channels \cup {"athick"}
        /\ \A k \in Channels :
              rdp_unknowns[k] = pchip(op.arg["s"], op.arg[k], rdp.s_new).val
        /\ rdp_unknowns["athick"] = VMul(rdp_unknowns["chord"], rdp_unknowns["rthick"])

C4_Witness ==
    /\ Resampled /\ ~PGL_installed
    /\ rdp_unknowns["chord"] # zeros(Len(rdp.s_new))
    /\ rdp_unknowns["athick"] # zeros(Len(rdp.s_new))

C8_OutOfDomainFails ==
    (op.name = "solve_nonlinear" /\ rdp # <<>> /\ OutOfDomain(rdp.s_new, op.arg["s"]))
    => err # "none"

----------------------------------------------------------------------------
(* Claims about read_blade_planform                                         *)

\* C9: whenever read_blade_planform has returned a planform, the largest
\* value of its rthick is exactly 1, its s starts at 0 and ends at 1, and its
\* athick equals chord * rthick element by element
C9_PostRead ==
    (op.name = "read_blade_planform" /\ err = "none") =>
        /\ FEq(amax(planform.rthick), One)
        /\ FEq(planform.s[1], Zero)
        /\ FEq(planform.s[Len(planform.s)], One)
        /\ VEq(planform.athick, VMul(planform.chord, planform.rthick))

----------------------------------------------------------------------------
(* Claims about the planform group                                          *)

\* the instance of the FFDSpline called name in the group g
Engine(g, name) == Subsystem(g, name).system.f

\* C7: a request for a strategy that spline_dict does not hold fails, with
\* KeyError through set_spline and with ValueError through the option and
\* through add_spline once it has built the FFDSpline; every FFDSpline of
\* the group keeps its strategy instance and its recorded spline_type, and
\* the FFDSpline a failed add_spline has built keeps those its constructor
\* selected
C7_UnknownStrategyFails ==
    [][(/\ op'.name \in {"set_spline", "spline_options", "add_spline"}
        /\ op'.arg[2] \notin spline_dict)
       => /\ err' \in {"KeyError", "ValueError", "RuntimeError"}
          /\ op'.name = "set_spline" => err' = "KeyError"
          /\ op'.name = "spline_options" => err' = "ValueError"
          /\ (/\ op'.name = "add_spline"
              /\ op'.arg[1] \in SplineVars
              /\ name_c[op'.arg[1]] \notin SubsystemNames(blade))
             => /\ err' = "ValueError"
                /\ name_s[op'.arg[1]] \in Engines(blade')
          /\ \A name \in Engines(blade) :
                /\ name \in Engines(blade')
                /\ Engine(blade', name).spline = Engine(blade, name).spline
                /\ Engine(blade', name).spline_type = Engine(blade, name).spline_type
          /\ \A name \in Engines(blade') \ Engines(blade) :
                /\ Engine(blade', name).spline = NewSpline("bezier", TRUE)
                /\ Engine(blade', name).spline_type = "bezier"
      ]_vars

\* an FFDSpline switched to pchip has refused a set_spline with an unknown
\* name and still holds pchip
C7_Witness ==
    /\ op.name = "set_spline"
    /\ op.arg[2] \notin spline_dict
    /\ err = "KeyError"
    /\ Engine(blade, op.arg[1]).spline.cls = "pchip"
    /\ Engine(blade, op.arg[1]).spline_type = "pchip"

\* C10: add_spline with a name outside x, y, rot_x, rot_y, rot_z, chord,
\* rthick, p_le fails with RuntimeError and leaves the group as it was; with
\* a name of that set it appends the name to _vars, and it succeeds and
\* holds the FFDSpline of the channel when the spline type is known and the
\* group holds no subsystem of the channel yet
C10_AddSplineChecksName ==
    [][op'.name = "add_spline"
       => /\ op'.arg[1] \notin SplineVars
             => /\ err' = "RuntimeError"
                /\ blade' = blade
          /\ op'.arg[1] \in SplineVars
             => blade'._vars = Append(blade._vars, op'.arg[1])
          /\ (/\ op'.arg[1] \in SplineVars
              /\ op'.arg[2] \in spline_dict
              /\ name_c[op'.arg[1]] \notin SubsystemNames(blade))
             => /\ err' = "none"
                /\ name_s[op'.arg[1]] \in Engines(blade')
      ]_vars

\* a group that holds the spline of one channel has refused a name that is
\* a channel but not one add_spline accepts
C10_Witness ==
    /\ op.name = "add_spline"
    /\ op.arg[1] = "z"
    /\ err = "RuntimeError"
    /\ Len(blade._vars) = 1
    /\ Engines(blade) # {}

\* the subsystems of g whose output var is visible in g under its own name:
\* those that promote it by name or by '*'
Producers(g, var) ==
    {sub \in g.subsystems :
        /\ var \in sub.system.outputs
        /\ (var \in sub.promotes \/ "*" \in sub.promotes)}

\* the channels add_spline was called for
Splined(g) == {g._vars[i] : i \in 1..Len(g._vars)}

\* what produces the channel ch in g: for a channel with a spline its
\* FFDSpline (for chord the ScaleChord fed by the FFDSpline), otherwise an
\* IndepVarComp that holds the values of the initial planform
ProducedAsClaimed(g, ch, sub) ==
    IF ch \notin Splined(g)
    THEN /\ sub.name = name_c[ch]
         /\ sub.system = IndepVarComp(blade_ae[ch], g.pfinit[ch])
    ELSE IF ch = "chord"
    THEN /\ sub.name = "chord_scaler"
         /\ sub.system.class = "ScaleChord"
         /\ "chord_s" \in Engines(g)
         /\ "blade_ae:chord" \in Subsystem(g, "chord_s").system.outputs
         /\ Subsystem(g, "chord_s").system.f.Pinit = g.pfinit["chord"]
         /\ <<"chord_s.blade_ae:chord", "chord_scaler.blade_ae:chord_in">>
               \in g.connections
    ELSE /\ sub.name = name_s[ch]
         /\ sub.system.class = "FFDSpline"
         /\ sub.system.f.Pinit = g.pfinit[ch]

====
